---- MODULE Spec2Model ----
(***************************************************************************)
(* Model of examples/dev/triangle_edge.py: the tangent ("order") vectors   *)
(* of a path, the per-shape edge meshes and their concatenation, the       *)
(* helper data of a shape collection, and the set_data callbacks that      *)
(* refresh the helper layers of the viewer; and of                         *)
(* napari/_qt/perf/qt_performance.py: the TimeBasedCircularBuffer and the  *)
(* update of the QtPerformance widget.                                     *)
(*                                                                         *)
(* Numbers.  numpy float64 values are modelled exactly as fixed-point      *)
(* integers counting halves: the float x is the integer 2*x.  Every value  *)
(* the modelled code computes on axis-aligned integer paths is a multiple  *)
(* of 1/2 (coordinates, unit tangents, tangents scaled by 0.5, half-width  *)
(* offsets), so no rounding is modelled away.  NaN, the result of 0/0, is  *)
(* a separate value that every arithmetic operation propagates.            *)
(***************************************************************************)
EXTENDS Integers, Sequences, FiniteSets, TLC

\* ---------------------------------------------------------------- bounds
MaxCoord == 2      \* path points lie on the grid 0..MaxCoord x 0..MaxCoord
MaxN == 4          \* longest path, in points
MaxShapes == 2     \* largest shape collection
MaxPoints == 4     \* most points in a shape collection, all shapes together
MaxRepeatN == 3    \* longest path whose generation is repeated, in points
MaxBatchPoints == 7  \* most points in a batch run call by call, all shapes together
MaxClock == 5      \* the clock is followed up to this time, in seconds
MaxEvents == 3     \* most events ever added to one buffer
MaxUpdates == 1    \* most updates of the QtPerformance widget
MaxCalls == 4      \* most calls made on the arrays of one path

VARIABLES
    path_,     \* argument of the function under call: sequence of points
    closed,    \* argument of the function under call: closed flag
    pc,        \* "idle" before a call, then the name of the function called;
               \* "run" while the viewer script runs its event loop
    ret,       \* what the call returned: [exc |-> name or "none", val |-> value]
    shapes,    \* the shapes of the Shapes layer: sequence of [data, closed]
    layers,    \* the data of the helper layers of the viewer, by layer name
    pending,   \* the set_data callbacks still to run for the event emitted;
               \* the per-shape computations of a batch still to run
    heap,      \* the arrays alive during the calls, by the name that holds them
    calls,     \* the calls made so far: sequence of <<function, result>>
    clock,     \* what time.time() returns now, in seconds
    buffer,    \* TimeBasedCircularBuffer.buffer: sequence of <<event, timestamp>>
    added,     \* every <<event, timestamp>> ever appended to the buffer
    timers,    \* perf.timers.timers: sequence of [name, average, max]
    thresh_ms, \* QtPerformance.thresh_ms
    log,       \* the lines of QtPerformance.log: sequence of <<name, time_ms>>
    bar,       \* QtPerformance.bar: [maximum, value]
    frame      \* the locals of the QtPerformance.update under way

heapVars == <<heap, calls>>

perfVars == <<clock, buffer, added, timers, thresh_ms, log, bar, frame>>

vars == <<path_, closed, pc, ret, shapes, layers, pending, heapVars, perfVars>>

\* ------------------------------------------------------- float arithmetic
NaN == 1000000

ToFloat(i) == 2 * i

One == ToFloat(1)

FNeg(a) == IF a = NaN THEN NaN ELSE 0 - a

FAdd(a, b) == IF a = NaN \/ b = NaN THEN NaN ELSE a + b

FSub(a, b) == IF a = NaN \/ b = NaN THEN NaN ELSE a - b

\* a * 0.5
FHalf(a) == IF a = NaN THEN NaN ELSE a \div 2

\* a / b; 0/0 is nan.  A non-zero numerator over zero (inf) cannot arise:
\* the callers divide a vector by its own norm.
FDiv(a, b) == IF a = NaN \/ b = NaN THEN NaN
              ELSE IF b = 0 THEN NaN
              ELSE (One * a) \div b

Abs(a) == IF a < 0 THEN 0 - a ELSE a

\* square root of a sum of squares, exact on axis-aligned vectors
FSqrt(s) == CHOOSE r \in 0..s : r * r = s

VAdd(u, v) == <<FAdd(u[1], v[1]), FAdd(u[2], v[2])>>

VSub(u, v) == <<FSub(u[1], v[1]), FSub(u[2], v[2])>>

VNeg(u) == <<FNeg(u[1]), FNeg(u[2])>>

VHalf(u) == <<FHalf(u[1]), FHalf(u[2])>>

VDiv(u, d) == <<FDiv(u[1], d), FDiv(u[2], d)>>

\* np.linalg.norm of a 2-vector
Norm(u) == IF u[1] = NaN \/ u[2] = NaN THEN NaN
           ELSE FSqrt(u[1] * u[1] + u[2] * u[2])

IsNaNVec(u) == u[1] = NaN \/ u[2] = NaN

\* a path as a float array
AsArray(p) == [i \in 1..Len(p) |-> <<ToFloat(p[i][1]), ToFloat(p[i][2])>>]

Ok(v) == [exc |-> "none", val |-> v]

Raise(e) == [exc |-> e, val |-> <<>>]

\* ------------------------------------------------- generate_order_vectors
\* vec[:, 0] = path_[0]: every record gets the first point as its origin
generate_order_vectors_first_origin(p, cl) ==
    LET P == AsArray(p)
        N == Len(P)
        n == [i \in 1..(IF N = 0 THEN 0 ELSE N - 1) |-> VSub(P[i + 1], P[i])]
        normals == [i \in DOMAIN n |-> VDiv(n[i], Norm(n[i]))]
    IN  IF cl
        THEN IF N = 0 THEN Raise("IndexError")
             ELSE Ok([i \in 1..N |->
                        <<P[1],
                          IF i < N THEN normals[i]
                          ELSE VDiv(VSub(P[1], P[N]), Norm(VSub(P[N], P[1])))>>])
        ELSE IF N < 2 THEN Raise("IndexError")
             ELSE Ok([i \in 1..N |->
                        <<P[1],
                          IF i < N THEN normals[i] ELSE VNeg(normals[N - 1])>>])

\* the wraparound tangent taken from first to last: path_[-1] - path_[0]
generate_order_vectors_wrap_reversed(p, cl) ==
    LET P == AsArray(p)
        N == Len(P)
        n == [i \in 1..(IF N = 0 THEN 0 ELSE N - 1) |-> VSub(P[i + 1], P[i])]
        normals == [i \in DOMAIN n |-> VDiv(n[i], Norm(n[i]))]
    IN  IF cl
        THEN IF N = 0 THEN Raise("IndexError")
             ELSE Ok([i \in 1..N |->
                        <<P[i],
                          IF i < N THEN normals[i]
                          ELSE VDiv(VSub(P[N], P[1]), Norm(VSub(P[N], P[1])))>>])
        ELSE IF N < 2 THEN Raise("IndexError")
             ELSE Ok([i \in 1..N |->
                        <<P[i],
                          IF i < N THEN normals[i] ELSE VNeg(normals[N - 1])>>])

\* the wraparound tangent left unnormalised: path_[0] - path_[-1]
generate_order_vectors_wrap_raw(p, cl) ==
    LET P == AsArray(p)
        N == Len(P)
        n == [i \in 1..(IF N = 0 THEN 0 ELSE N - 1) |-> VSub(P[i + 1], P[i])]
        normals == [i \in DOMAIN n |-> VDiv(n[i], Norm(n[i]))]
    IN  IF cl
        THEN IF N = 0 THEN Raise("IndexError")
             ELSE Ok([i \in 1..N |->
                        <<P[i],
                          IF i < N THEN normals[i]
                          ELSE VDiv(VSub(P[1], P[N]), One)>>])
        ELSE IF N < 2 THEN Raise("IndexError")
             ELSE Ok([i \in 1..N |->
                        <<P[i],
                          IF i < N THEN normals[i] ELSE VNeg(normals[N - 1])>>])

\* Result: Ok(vec) with vec[i] = <<origin, direction>>, or the exception the
\* indexing raises.  Python index k (0-based) is index k+1 here.
\*   n = path_[1:] - path_[:-1]; normals = n / norm(n)
\*   vec[:, 0] = path_; vec[:-1, 1] = normals
\*   closed: vec[-1, 1] = (path_[0] - path_[-1]) / norm(path_[-1] - path_[0])
\*           (path_[0] of an empty array raises IndexError)
\*   open:   vec[-1, 1] = -vec[-2, 1]
\*           (vec[-2] of an array of fewer than 2 rows raises IndexError)
generate_order_vectors(p, cl) ==
    LET P == AsArray(p)
        N == Len(P)
        n == [i \in 1..(IF N = 0 THEN 0 ELSE N - 1) |-> VSub(P[i + 1], P[i])]
        normals == [i \in DOMAIN n |-> VDiv(n[i], Norm(n[i]))]
    IN  IF cl
        THEN IF N = 0 THEN Raise("IndexError")
             ELSE Ok([i \in 1..N |->
                        <<P[i],
                          IF i < N THEN normals[i]
                          ELSE VDiv(VSub(P[1], P[N]), Norm(VSub(P[N], P[1])))>>])
        ELSE IF N < 2 THEN Raise("IndexError")
             ELSE Ok([i \in 1..N |->
                        <<P[i],
                          IF i < N THEN normals[i] ELSE VNeg(normals[N - 1])>>])

\* ------------------------------------------------------- Path Normalizer
\* Collapsing of consecutive coincident points: a point equal to the point
\* kept before it is dropped and, on a closed path, so is a last point equal
\* to the first one.
RECURSIVE Dedup(_)
Dedup(p) ==
    IF Len(p) < 2 THEN p
    ELSE LET rest == Dedup(Tail(p))
         IN  IF p[1] = rest[1] THEN rest ELSE <<p[1]>> \o rest

Collapse(p, cl) ==
    LET d == Dedup(p)
    IN  IF cl /\ Len(d) > 1 /\ d[Len(d)] = d[1]
        THEN SubSeq(d, 1, Len(d) - 1)
        ELSE d

\* fewer than 2 points (open) or 3 points (closed) after collapsing
Degenerate(p, cl) == Len(Collapse(p, cl)) < (IF cl THEN 3 ELSE 2)

\* ------------------------------------------ generate_2D_edge_meshes
\* a * b on floats
FMul(a, b) == IF a = NaN \/ b = NaN THEN NaN ELSE (a * b) \div One

Dot(u, v) == FAdd(FMul(u[1], v[1]), FMul(u[2], v[2]))

\* the vector rotated by 90 degrees
Rot90(u) == <<FNeg(u[2]), u[1]>>

Zero2 == <<0, 0>>

\* The points of the normalised path P (N of them) that are joins of two
\* segments: every point of a closed path, the inner points of an open one.
IsJoin(N, cl, i) == cl \/ (1 < i /\ i < N)

Prev(N, i) == IF i = 1 THEN N ELSE i - 1

Succ(N, i) == IF i = N THEN 1 ELSE i + 1

\* unit normal of the segment that starts at point i
SegNormal(P, i) ==
    LET d == VSub(P[Succ(Len(P), i)], P[i])
    IN  Rot90(VDiv(d, Norm(d)))

\* Miter Join Resolver.  The join normal is the bisector of the normals of
\* the two adjacent segments and the half-width offset is
\* 0.5 * bisector / (bisector . segment_normal).  Where the path reverses
\* (bisector zero, miter length unbounded) the join is a bevel.
IsBevel(P, cl, i) ==
    /\ IsJoin(Len(P), cl, i)
    /\ VAdd(SegNormal(P, Prev(Len(P), i)), SegNormal(P, i)) = Zero2

JoinOffset(P, cl, i) ==
    LET N == Len(P)
        nin == SegNormal(P, Prev(N, i))
        nout == SegNormal(P, i)
        b == VAdd(nin, nout)
    IN  IF ~IsJoin(N, cl, i)
        THEN VHalf(IF i = 1 THEN nout ELSE nin)
        ELSE IF b = Zero2 THEN VHalf(nin)
        ELSE VHalf(VDiv(b, Dot(b, nout)))

\* the bevel joins of P in path order
RECURSIVE BevelsUpTo(_, _, _)
BevelsUpTo(P, cl, i) ==
    IF i = 0 THEN <<>>
    ELSE BevelsUpTo(P, cl, i - 1) \o (IF IsBevel(P, cl, i) THEN <<i>> ELSE <<>>)

\* the two triangles of the ring with the wraparound segment left out
generate_2D_edge_meshes_no_wrap(p, cl) ==
    IF Degenerate(p, cl) THEN Raise("DegeneratePathError")
    ELSE
    LET P == AsArray(Collapse(p, cl))
        N == Len(P)
        bevels == BevelsUpTo(P, cl, N)
        nseg == N - 1
        centers == [v \in 1..(2 * N + Len(bevels)) |->
                      IF v <= 2 * N THEN P[(v + 1) \div 2] ELSE P[bevels[v - 2 * N]]]
        offsets == [v \in 1..(2 * N + Len(bevels)) |->
                      IF v <= 2 * N
                      THEN IF v % 2 = 1 THEN JoinOffset(P, cl, (v + 1) \div 2)
                           ELSE VNeg(JoinOffset(P, cl, (v + 1) \div 2))
                      ELSE VHalf(SegNormal(P, bevels[v - 2 * N]))]
        ring == [t \in 1..(2 * nseg) |->
                   LET i == (t + 1) \div 2
                       j == Succ(N, i)
                   IN  IF t % 2 = 1
                       THEN <<2 * (i - 1), 2 * (i - 1) + 1, 2 * (j - 1)>>
                       ELSE <<2 * (i - 1) + 1, 2 * (j - 1) + 1, 2 * (j - 1)>>]
        corner == [k \in 1..Len(bevels) |->
                     <<2 * (bevels[k] - 1), 2 * (bevels[k] - 1) + 1, 2 * N + k - 1>>]
    IN  Ok(<<centers, offsets, ring \o corner>>)

\* Edge Mesh Assembler.  The path is normalised first (a degenerate path
\* is rejected).  The mesh of the N remaining points is the triple
\* <<vertices, offsets, triangles>>: two vertices per point (vertex 2i at
\* the outer offset, 2i+1 at the inner one, numbered from 0), two triangles
\* per segment, the wraparound segment of a closed path included, and for
\* every bevel join one more vertex, after the ring, and one more triangle.
generate_2D_edge_meshes(p, cl) ==
    IF Degenerate(p, cl) THEN Raise("DegeneratePathError")
    ELSE
    LET P == AsArray(Collapse(p, cl))
        N == Len(P)
        bevels == BevelsUpTo(P, cl, N)
        nseg == IF cl THEN N ELSE N - 1
        centers == [v \in 1..(2 * N + Len(bevels)) |->
                      IF v <= 2 * N THEN P[(v + 1) \div 2] ELSE P[bevels[v - 2 * N]]]
        offsets == [v \in 1..(2 * N + Len(bevels)) |->
                      IF v <= 2 * N
                      THEN IF v % 2 = 1 THEN JoinOffset(P, cl, (v + 1) \div 2)
                           ELSE VNeg(JoinOffset(P, cl, (v + 1) \div 2))
                      ELSE VHalf(SegNormal(P, bevels[v - 2 * N]))]
        ring == [t \in 1..(2 * nseg) |->
                   LET i == (t + 1) \div 2
                       j == Succ(N, i)
                   IN  IF t % 2 = 1
                       THEN <<2 * (i - 1), 2 * (i - 1) + 1, 2 * (j - 1)>>
                       ELSE <<2 * (i - 1) + 1, 2 * (j - 1) + 1, 2 * (j - 1)>>]
        corner == [k \in 1..Len(bevels) |->
                     <<2 * (bevels[k] - 1), 2 * (bevels[k] - 1) + 1, 2 * N + k - 1>>]
    IN  Ok(<<centers, offsets, ring \o corner>>)

\* ----------------------------------------- generate_edge_triangle_borders
\* a[k] for a 0-based index k
At(a, k) == a[k + 1]

InRange(a, k) == 0 <= k /\ k < Len(a)

\* the three border vectors of every triangle, read at centers[a + 1]
generate_edge_triangle_borders_off_by_one(centers, offsets, triangles) ==
    IF \A i \in 1..Len(triangles) : \A k \in 1..3 :
           InRange(centers, triangles[i][k] + 1) /\ InRange(offsets, triangles[i][k] + 1)
    THEN {Ok([r \in 1..(3 * Len(triangles)) |->
                LET t == triangles[(r + 2) \div 3]
                    a1 == VAdd(At(centers, t[1] + 1), At(offsets, t[1] + 1))
                    b1 == VAdd(At(centers, t[2] + 1), At(offsets, t[2] + 1))
                    c1 == VAdd(At(centers, t[3] + 1), At(offsets, t[3] + 1))
                IN  CASE r % 3 = 1 -> <<a1, VSub(b1, a1)>>
                      [] r % 3 = 2 -> <<b1, VSub(c1, b1)>>
                      [] OTHER -> <<c1, VSub(a1, c1)>>])}
    ELSE {Raise("SIGSEGV"), Ok(<<"garbage">>)}

\* the defined result of generate_edge_triangle_borders, all reads in range
EdgeTriangleBorders(centers, offsets, triangles) ==
    [r \in 1..(3 * Len(triangles)) |->
        LET t == triangles[(r + 2) \div 3]
            a1 == VAdd(At(centers, t[1]), At(offsets, t[1]))
            b1 == VAdd(At(centers, t[2]), At(offsets, t[2]))
            c1 == VAdd(At(centers, t[3]), At(offsets, t[3]))
        IN  CASE r % 3 = 1 -> <<a1, VSub(b1, a1)>>
              [] r % 3 = 2 -> <<b1, VSub(c1, b1)>>
              [] OTHER -> <<c1, VSub(a1, c1)>>]

\* The set of outcomes of the call.  The function is compiled by numba
\* without bounds checking: a read at an index outside the array is
\* undefined, the build either crashes or returns whatever memory holds.
\*   a1 = centers[a] + offsets[a]; b1, c1 alike
\*   res[3i] = (a1, b1 - a1); res[3i+1] = (b1, c1 - b1); res[3i+2] = (c1, a1 - c1)
generate_edge_triangle_borders(centers, offsets, triangles) ==
    IF \A i \in 1..Len(triangles) : \A k \in 1..3 :
           InRange(centers, triangles[i][k]) /\ InRange(offsets, triangles[i][k])
    THEN {Ok(EdgeTriangleBorders(centers, offsets, triangles))}
    ELSE {Raise("SIGSEGV"), Ok(<<"garbage">>)}

\* generate_face_triangle_borders: as above on the vertices themselves
generate_face_triangle_borders(vertices, triangles) ==
    [r \in 1..(3 * Len(triangles)) |->
        LET t == triangles[(r + 2) \div 3]
            a1 == At(vertices, t[1])
            b1 == At(vertices, t[2])
            c1 == At(vertices, t[3])
        IN  CASE r % 3 = 1 -> <<a1, VSub(b1, a1)>>
              [] r % 3 = 2 -> <<b1, VSub(c1, b1)>>
              [] OTHER -> <<c1, VSub(a1, c1)>>]

\* ------------------------------------------- helper vectors of one shape
\* vec2 = normal_vector with the directions scaled by 0.5; vec3 = vec2 with
\* the directions negated and rolled by one (row i takes row i-1, row 0 the
\* last row) and the origins moved by the vec2 directions; [vec2, vec3]
generate_miter_helper_vectors(normal_vector) ==
    LET N == Len(normal_vector)
        vec2 == [i \in 1..N |-> <<normal_vector[i][1], VHalf(normal_vector[i][2])>>]
        vec3 == [i \in 1..N |->
                   <<VAdd(vec2[i][1], vec2[i][2]), VNeg(vec2[Prev(N, i)][2])>>]
    IN  vec2 \o vec3

\* vec5: origin in the middle of the tangent, direction the half tangent
\* turned by 90 degrees
generate_orthogonal_vectors(normal_vector) ==
    LET N == Len(normal_vector)
        vec2 == [i \in 1..N |-> <<normal_vector[i][1], VHalf(normal_vector[i][2])>>]
    IN  [i \in 1..N |-> <<VAdd(vec2[i][1], vec2[i][2]), Rot90(vec2[i][2])>>]

\* vec_points[:, 0] = mesh[0]; vec_points[:, 1] = mesh[1]
generate_mitter_vectors(mesh) ==
    [i \in 1..Len(mesh[1]) |-> <<mesh[1][i], mesh[2][i]>>]

\* ---------------------------------------------- the calls and their arrays
\* The functions are handed numpy arrays by reference.  heap maps the name
\* of every array alive to its value; a statement "x = y.copy()" gives x an
\* array of its own, an in-place statement "x[...] *= c" changes the array x
\* names and with it what every other holder of that array sees.  A call is
\* modelled by the heap it leaves and the value it returns.
Free == <<"free">>

Names == {"path_", "o", "mesh", "vec2", "vec3", "vec5"}

Locals == {"vec2", "vec3", "vec5"}

\* the one element of a singleton set; written The({e(x) : x \in {v}}) it
\* names the value v once for all its uses in e
The(S) == CHOOSE x \in S : TRUE

\* the locals of a call die when it returns
Return(h, r) ==
    The({[heap |-> [n \in DOMAIN x |-> IF n \in Locals THEN Free ELSE x[n]],
          ret |-> r] : x \in {h}})

\* x[:, 1] *= 0.5
ScaleDirs(x) == [i \in DOMAIN x |-> <<x[i][1], VHalf(x[i][2])>>]

\* x[:, 1] *= -1
NegDirs(x) == [i \in DOMAIN x |-> <<x[i][1], VNeg(x[i][2])>>]

\* x[:, 1] = np.roll(x[:, 1], -1, axis=0)
RollDirs_next(x) == [i \in DOMAIN x |-> <<x[i][1], x[Succ(Len(x), i)][2]>>]

\* x[:, 1] = np.roll(x[:, 1], 1, axis=0)
RollDirs(x) == [i \in DOMAIN x |-> <<x[i][1], x[Prev(Len(x), i)][2]>>]

\* x[:, 0] += y[:, 1]
AddDirsToOrigins(x, y) == [i \in DOMAIN x |-> <<VAdd(x[i][1], y[i][2]), x[i][2]>>]

\* x[:, 1, 0] = -y[:, 1, 1]; x[:, 1, 1] = y[:, 1, 0]
SetDirsOrthogonal(x, y) ==
    [i \in DOMAIN x |-> <<x[i][1], <<FNeg(y[i][2][2]), y[i][2][1]>>>>]

\* generate_order_vectors assigns to the arrays it creates (n, norm, normals,
\* vec) only and reads path_
generate_order_vectors_run(h, p, cl) == Return(h, generate_order_vectors(h[p], cl))

\* the statements of generate_miter_helper_vectors, normal_vector naming the
\* array a, vec2 the array v2 and vec3 the array v3
miter_helper_statements(h, a, v2, v3) ==
    LET h49 == [h EXCEPT ![v2] = h[a]]
        h50 == [h49 EXCEPT ![v2] = ScaleDirs(@)]
        h51 == The({[x EXCEPT ![v3] = x[v2]] : x \in {h50}})
        h52 == [h51 EXCEPT ![v3] = NegDirs(@)]
        h53 == [h52 EXCEPT ![v3] = RollDirs(@)]
        h54 == The({[x EXCEPT ![v3] = AddDirsToOrigins(@, x[v2])] : x \in {h53}})
    IN  The({Return(x, Ok(x[v2] \o x[v3])) : x \in {h54}})

\* vec2 = normal_vector without the copy: vec2 names the caller's array
generate_miter_helper_vectors_no_copy(h, a) == miter_helper_statements(h, a, a, "vec3")

\* vec2 = normal_vector.copy() and vec3 = vec2.copy() are arrays of the call
generate_miter_helper_vectors_run(h, a) == miter_helper_statements(h, a, "vec2", "vec3")

\* the statements of generate_orthogonal_vectors, likewise
orthogonal_statements(h, a, v2, v5) ==
    LET h64 == [h EXCEPT ![v2] = h[a]]
        h65 == [h64 EXCEPT ![v2] = ScaleDirs(@)]
        h66 == The({[x EXCEPT ![v5] = x[v2]] : x \in {h65}})
        h67 == The({[x EXCEPT ![v5] = AddDirsToOrigins(@, x[v2])] : x \in {h66}})
        h69 == The({[x EXCEPT ![v5] = SetDirsOrthogonal(@, x[v2])] : x \in {h67}})
    IN  The({Return(x, Ok(x[v5])) : x \in {h69}})

\* vec2 = normal_vector without the copy
generate_orthogonal_vectors_no_copy(h, a) == orthogonal_statements(h, a, a, "vec5")

generate_orthogonal_vectors_run(h, a) == orthogonal_statements(h, a, "vec2", "vec5")

\* generate_mitter_vectors and generate_edge_triangle_borders assign to the
\* array they create (vec_points, res) only
generate_mitter_vectors_run(h, m) == Return(h, Ok(generate_mitter_vectors(h[m])))

generate_edge_triangle_borders_run(h, m) ==
    {Return(h, r) : r \in generate_edge_triangle_borders(h[m][1], h[m][2], h[m][3])}


\* ------------------------------------------------------ shapes of a layer
\* twice the signed area of the polygon Q (shoelace formula)
RECURSIVE Shoelace(_, _)
Shoelace(Q, i) ==
    IF i = 0 THEN 0
    ELSE Shoelace(Q, i - 1)
         + Q[i][1] * Q[Succ(Len(Q), i)][2] - Q[Succ(Len(Q), i)][1] * Q[i][2]

\* Face Mesh Assembler: <<vertices, triangles>>.  Empty for an open path and
\* for a path the normaliser rejects; a closed path without area has no ear
\* (TriangulationError) and gets an empty face mesh as well.  Otherwise the
\* vertices are the path points and the triangles a fan from vertex 0.
FaceMesh(x) ==
    LET Q == Collapse(x.data, x.closed)
    IN  IF ~x.closed \/ Degenerate(x.data, x.closed) \/ Shoelace(Q, Len(Q)) = 0
        THEN <<<<>>, <<>>>>
        ELSE <<AsArray(Q), [t \in 1..(Len(Q) - 2) |-> <<0, t, t + 1>>]>>

\* x._edge_vertices, x._edge_offsets, x._edge_triangles: the edge mesh the
\* layer keeps for the shape; a shape whose path is rejected is skipped and
\* has empty arrays
EdgeMeshOf(x) ==
    LET m == generate_2D_edge_meshes(x.data, x.closed)
    IN  IF m.exc = "none" THEN m.val ELSE <<<<>>, <<>>, <<>>>>

\* np.concatenate(li, axis=0) of a non-empty list of arrays
RECURSIVE Concat(_)
Concat(li) == IF li = <<>> THEN <<>> ELSE Head(li) \o Concat(Tail(li))

\* the exception of the first element of a list of results that has one
RECURSIVE FirstExc(_)
FirstExc(li) ==
    IF li = <<>> THEN "none"
    ELSE IF Head(li).exc # "none" THEN Head(li).exc
    ELSE FirstExc(Tail(li))

Vals(li) == [i \in 1..Len(li) |-> li[i].val]

\* tuple(np.concatenate(el, axis=0) for el in zip(*mesh_list)): the empty
\* tuple for no shape, else the three arrays joined shape after shape, the
\* triangle rows as they are
ConcatMeshes(mesh_list) ==
    IF mesh_list = <<>> THEN <<>>
    ELSE <<Concat([k \in 1..Len(mesh_list) |-> mesh_list[k][1]]),
           Concat([k \in 1..Len(mesh_list) |-> mesh_list[k][2]]),
           Concat([k \in 1..Len(mesh_list) |-> mesh_list[k][3]])>>

\* mesh[0] + mesh[1]
JoinPoints(mesh) == [i \in 1..Len(mesh[1]) |-> VAdd(mesh[1][i], mesh[2][i])]

\* mesh1_li = [generate_2D_edge_meshes(p, closed=s != 'path') ...]
\* mesh1 = tuple(np.concatenate(el, axis=0) for el in zip(*mesh1_li))
\* An exception of one element of the list comprehension ends the statement.
mesh1(sh) ==
    LET mesh1_li == [k \in 1..Len(sh) |->
                       generate_2D_edge_meshes(sh[k].data, sh[k].closed)]
    IN  IF FirstExc(mesh1_li) # "none" THEN Raise(FirstExc(mesh1_li))
        ELSE Ok(ConcatMeshes(Vals(mesh1_li)))

HelperNames ==
    {"join points", "normal vectors", "miter helper", "orthogonal",
     "miter vectors", "triangle vectors", "triangle face vectors"}

\* get_helper_data_from_shapes.  The statements in order; the first that
\* raises ends the call:
\*   mesh = tuple(...)                      () when there is no shape
\*   points = mesh[0] + mesh[1]             IndexError on the empty tuple
\*   order_vectors_li = [generate_order_vectors(...) ...]
\*   ... one np.concatenate of a per-shape list for every helper ...
\*   face_triangles_vectors = np.concatenate([... for m in face_mesh_list])
\*                                          ValueError when no shape of the
\*                                          collection has face vertices
get_helper_data_from_shapes(sh) ==
    LET mesh_list == [k \in 1..Len(sh) |-> EdgeMeshOf(sh[k])]
        mesh == ConcatMeshes(mesh_list)
        faces == [k \in 1..Len(sh) |-> FaceMesh(sh[k])]
        face_mesh_list == SelectSeq(faces, LAMBDA f : Len(f[1]) > 0)
        order_vectors_li == [k \in 1..Len(sh) |->
                               generate_order_vectors(sh[k].data, sh[k].closed)]
        o == Vals(order_vectors_li)
    IN  IF mesh = <<>> THEN Raise("IndexError")
        ELSE IF FirstExc(order_vectors_li) # "none"
        THEN Raise(FirstExc(order_vectors_li))
        ELSE IF face_mesh_list = <<>> THEN Raise("ValueError")
        ELSE Ok([n \in HelperNames |->
                CASE n = "join points" -> JoinPoints(mesh)
                  [] n = "normal vectors" -> Concat(o)
                  [] n = "miter helper" ->
                        Concat([k \in 1..Len(o) |-> generate_miter_helper_vectors(o[k])])
                  [] n = "orthogonal" ->
                        Concat([k \in 1..Len(o) |-> generate_orthogonal_vectors(o[k])])
                  [] n = "miter vectors" ->
                        Concat([k \in 1..Len(sh) |-> generate_mitter_vectors(mesh_list[k])])
                  [] n = "triangle vectors" ->
                        Concat([k \in 1..Len(sh) |->
                                  EdgeTriangleBorders(mesh_list[k][1], mesh_list[k][2],
                                                      mesh_list[k][3])])
                  [] OTHER ->
                        Concat([k \in 1..Len(face_mesh_list) |->
                                  generate_face_triangle_borders(face_mesh_list[k][1],
                                                                 face_mesh_list[k][2])])])

\* get_nono_accelerated_points: the edge meshes are generated anew, shape by
\* shape; an exception of one ends the call; mesh[0] + mesh[1] raises
\* IndexError on the empty tuple
get_nono_accelerated_points(sh) ==
    LET mesh_list == [k \in 1..Len(sh) |->
                        generate_2D_edge_meshes(sh[k].data, sh[k].closed)]
    IN  IF FirstExc(mesh_list) # "none" THEN Raise(FirstExc(mesh_list))
        ELSE IF sh = <<>> THEN Raise("IndexError")
        ELSE Ok(JoinPoints(ConcatMeshes(Vals(mesh_list))))

\* -------------------------------------------------- TimeBasedCircularBuffer
\* Times are whole seconds: an age is below, at or above duration_seconds.
MEAN_DRAW_TIME == 2

\* the events a caller adds (draw time averages, in milliseconds)
Events == {99, 100, 1001}

\* self.buffer.appendleft((event, current_time))
add_event_appendleft(buf, event, current_time) == <<<<event, current_time>>>> \o buf

\* self.buffer.append((event, current_time))
add_event_append(buf, event, current_time) == Append(buf, <<event, current_time>>)

\* current_time - self.buffer[0][1] >= self.duration_seconds
too_old_at_age(current_time, timestamp, duration_seconds) ==
    current_time - timestamp >= duration_seconds

\* current_time - self.buffer[0][1] > self.duration_seconds
too_old(current_time, timestamp, duration_seconds) ==
    current_time - timestamp > duration_seconds

\* _remove_old_events: while self.buffer and <the first entry is too old>:
\* self.buffer.popleft()
RECURSIVE remove_old_events(_, _, _)
remove_old_events(buf, current_time, duration_seconds) ==
    IF buf # <<>> /\ too_old(current_time, buf[1][2], duration_seconds)
    THEN remove_old_events(Tail(buf), current_time, duration_seconds)
    ELSE buf

\* [event for event, _ in self.buffer]
EventsOf(buf) == [i \in 1..Len(buf) |-> buf[i][1]]

\* ------------------------------------------------------------ QtPerformance
THRESH_DEFAULT == 100

\* the entries of THRESH_OPTIONS the user is followed choosing
ThreshChoices == {100, 200}

\* perf timer names; name.startswith('UpdateRequest')
TimerNames == {"UpdateRequest", "UpdateRequest [paint]", "MouseMove"}

IsUpdateRequest(name) == name \in {"UpdateRequest", "UpdateRequest [paint]"}

\* the average and max of a timer, in milliseconds
Stats == {[average |-> 99, max |-> 99], [average |-> 100, max |-> 100],
          [average |-> 1001, max |-> 1001]}

Timer == [name : TimerNames, stat : Stats]

\* perf.timers.timers: a dict, iterated in insertion order; no timer, one
\* timer or two timers of different names
IsTimers(t) ==
    \/ t = <<>>
    \/ \E a \in Timer : t = <<a>>
    \/ \E a, b \in Timer : a.name # b.name /\ t = <<a, b>>

RECURSIVE Max(_)
Max(li) == IF Len(li) = 1 THEN li[1]
           ELSE LET m == Max(Tail(li)) IN IF li[1] > m THEN li[1] ELSE m

RECURSIVE Sum(_)
Sum(li) == IF li = <<>> THEN 0 ELSE Head(li) + Sum(Tail(li))

\* int(mean(recent_events)) for a non-empty list of non-negative numbers
IntMean(li) == Sum(li) \div Len(li)

\* if timer.max >= self.thresh_ms
is_long(max, thresh) == max >= thresh

\* the body of the loop of _get_timer_info for the timer t, on the locals f
get_timer_info_step(f, t, thresh) ==
    [f EXCEPT
        !.it = @ + 1,
        !.average = IF IsUpdateRequest(t.name) THEN <<t.stat.average>> ELSE @,
        !.average_li = IF IsUpdateRequest(t.name) THEN Append(@, t.stat.average) ELSE @,
        !.long_events = IF is_long(t.stat.max, thresh)
                        THEN Append(@, <<t.name, t.stat.max>>) ELSE @]

\* the setMaximum calls of update, in order:
\*   if time_avg > 1000: setMaximum(10000)
\*   if time_avg > 100: setMaximum(1000) else: setMaximum(100)
set_maximum_calls(time_avg) ==
    (IF time_avg > 1000 THEN <<10000>> ELSE <<>>)
    \o (IF time_avg > 100 THEN <<1000>> ELSE <<100>>)

\* ------------------------------------------------------------ input space
Coords == 0..MaxCoord

Point == Coords \X Coords

AxisStep(a, b) == a[1] = b[1] \/ a[2] = b[2]

\* an axis-aligned step: one coordinate of the point is replaced
Step == {"x", "y"} \X Coords

Move(q, s) == IF s[1] = "x" THEN <<s[2], q[2]>> ELSE <<q[1], s[2]>>

\* the path that starts at q and takes the steps in turn
RECURSIVE Walk(_, _)
Walk(q, steps) ==
    IF steps = <<>> THEN <<q>>
    ELSE <<q>> \o Walk(Move(q, Head(steps)), Tail(steps))

\* p is an integer path of up to MaxN grid points whose segments are
\* axis-aligned or of zero length; on a closed path so is the wraparound
IsInput(p, cl) ==
    /\ \E k \in 0..MaxN :
          IF k = 0 THEN p = <<>>
          ELSE \E q \in Point : \E st \in [1..(k - 1) -> Step] : p = Walk(q, st)
    /\ (cl /\ Len(p) > 0) => AxisStep(p[Len(p)], p[1])

\* shape collections: up to MaxShapes shapes with up to MaxPoints points in
\* all, the points at the corners of the unit square, the segments
\* axis-aligned or of zero length.  A collection is spelt as one walk: a
\* first point, then for every further point either a step of the current
\* shape or, with "n", the first point of the next shape.
UnitCoords == {0, 1}

Items == ({"x", "y"} \X UnitCoords \X {0}) \cup ({"n"} \X UnitCoords \X UnitCoords)

Extend(paths, it) ==
    IF it[1] = "n" THEN Append(paths, <<<<it[2], it[3]>>>>)
    ELSE LET last == paths[Len(paths)]
         IN  [paths EXCEPT ![Len(paths)] =
                 Append(last, Move(last[Len(last)], <<it[1], it[2]>>))]

RECURSIVE BuildFrom(_, _)
BuildFrom(paths, items) ==
    IF items = <<>> THEN paths
    ELSE BuildFrom(Extend(paths, Head(items)), Tail(items))

IsCollection(c) ==
    \E T \in 0..MaxPoints :
        IF T = 0 THEN c = <<>>
        ELSE \E q \in UnitCoords \X UnitCoords : \E items \in [1..(T - 1) -> Items] :
               \E paths \in {BuildFrom(<<<<q>>>>, items)} :
                  /\ Len(paths) <= MaxShapes
                  /\ \E cl \in [1..Len(paths) -> BOOLEAN] :
                        /\ \A k \in 1..Len(paths) :
                              cl[k] => AxisStep(paths[k][Len(paths[k])], paths[k][1])
                        /\ c = [k \in 1..Len(paths) |->
                                  [data |-> paths[k], closed |-> cl[k]]]

LayerNames == HelperNames \cup {"non accelerated join points"}

NoLayers == [n \in LayerNames |-> <<>>]

\* ------------------------------------------------------------ state machine
\* no array is alive and no call has been made
NoHeap ==
    /\ heap = <<>>
    /\ calls = <<>>

\* no QtPerformance widget exists
NoPerf ==
    /\ clock = 0
    /\ buffer = <<>>
    /\ added = <<>>
    /\ timers = <<>>
    /\ thresh_ms = 0
    /\ log = <<>>
    /\ bar = <<>>
    /\ frame = <<>>

\* Calls of the functions of one path.
Init ==
    /\ NoHeap /\ NoPerf
    /\ closed \in BOOLEAN
    /\ IsInput(path_, closed)
    /\ pc = "idle"
    /\ ret = Ok(<<>>)
    /\ shapes = <<>>
    /\ layers = NoLayers
    /\ pending = {}

\* a call generate_order_vectors(path_, closed)
CallOrderVectors ==
    /\ pc = "idle"
    /\ pc' = "generate_order_vectors"
    /\ ret' = generate_order_vectors(path_, closed)
    /\ UNCHANGED <<path_, closed, shapes, layers, pending, heapVars, perfVars>>

\* a call generate_2D_edge_meshes(path_, closed), as for one element of mesh1_li
CallEdgeMesh ==
    /\ pc = "idle"
    /\ pc' = "generate_2D_edge_meshes"
    /\ ret' = generate_2D_edge_meshes(path_, closed)
    /\ UNCHANGED <<path_, closed, shapes, layers, pending, heapVars, perfVars>>

\* a call generate_edge_triangle_borders(*m) on the edge mesh m of the path
CallEdgeTriangleBorders ==
    /\ pc = "idle"
    /\ pc' = "generate_edge_triangle_borders"
    /\ \E m \in {generate_2D_edge_meshes(path_, closed)} :
          /\ m.exc = "none"
          /\ \E c \in {m.val[1]}, o \in {m.val[2]}, t \in {m.val[3]} :
                ret' \in generate_edge_triangle_borders(c, o, t)
    /\ UNCHANGED <<path_, closed, shapes, layers, pending, heapVars, perfVars>>

Next == CallOrderVectors \/ CallEdgeMesh \/ CallEdgeTriangleBorders

Spec == Init /\ [][Next]_vars

\* Calls of the batch functions on a shape collection.
InitBatch ==
    /\ NoHeap /\ NoPerf
    /\ IsCollection(shapes)
    /\ path_ = <<>>
    /\ closed = FALSE
    /\ pc = "idle"
    /\ ret = Ok(<<>>)
    /\ layers = NoLayers
    /\ pending = {}

\* the module-level statements that build mesh1_li and mesh1
CallMesh1 ==
    /\ pc = "idle"
    /\ pc' = "mesh1"
    /\ ret' = mesh1(shapes)
    /\ UNCHANGED <<path_, closed, shapes, layers, pending, heapVars, perfVars>>

CallGetHelperData ==
    /\ pc = "idle"
    /\ pc' = "get_helper_data_from_shapes"
    /\ ret' = get_helper_data_from_shapes(shapes)
    /\ UNCHANGED <<path_, closed, shapes, layers, pending, heapVars, perfVars>>

CallGetNonAcceleratedPoints ==
    /\ pc = "idle"
    /\ pc' = "get_nono_accelerated_points"
    /\ ret' = get_nono_accelerated_points(shapes)
    /\ UNCHANGED <<path_, closed, shapes, layers, pending, heapVars, perfVars>>

NextBatch == CallMesh1 \/ CallGetHelperData \/ CallGetNonAcceleratedPoints

SpecBatch == InitBatch /\ [][NextBatch]_vars

\* The viewer script.  After the layers are added and the two callbacks are
\* connected, the shapes layer emits set_data whenever its shapes change and
\* the callbacks run before the emitting statement returns.  The order in
\* which the emitter calls them, and whether it still calls the other one
\* after one has raised, is the emitter's; both are left open.  The script
\* is followed up to the first exception a callback lets escape.
InitShapes ==
    <<[data |-> <<<<0, 0>>, <<0, 1>>, <<1, 1>>, <<1, 0>>>>, closed |-> TRUE],
      [data |-> <<<<0, 0>>, <<0, 1>>>>, closed |-> FALSE]>>

Callbacks == {"update_layers", "update_non_accelerated_points"}

\* v.layers[...].data = helpers.<field>, for the seven helper layers
WithHelpers(l, h) == [n \in LayerNames |-> IF n \in HelperNames THEN h[n] ELSE l[n]]

InitLayers ==
    /\ NoHeap /\ NoPerf
    /\ shapes = InitShapes
    /\ layers = [n \in LayerNames |->
                   IF n \in HelperNames
                   THEN get_helper_data_from_shapes(InitShapes).val[n]
                   ELSE get_nono_accelerated_points(InitShapes).val]
    /\ pending = {}
    /\ pc = "run"
    /\ ret = Ok(<<>>)
    /\ path_ = <<>>
    /\ closed = FALSE

\* the shapes of the layer are replaced or edited: set_data is emitted
SetData ==
    /\ pc = "run" /\ pending = {} /\ ret.exc = "none"
    /\ IsCollection(shapes')
    /\ pending' = Callbacks
    /\ UNCHANGED <<path_, closed, pc, ret, layers, heapVars, perfVars>>

update_layers ==
    /\ "update_layers" \in pending
    /\ \E h \in {get_helper_data_from_shapes(shapes)} :
          IF h.exc = "none"
          THEN /\ layers' = WithHelpers(layers, h.val)
               /\ pending' = pending \ {"update_layers"}
               /\ ret' = ret
          ELSE /\ layers' = layers
               /\ pending' \in {pending \ {"update_layers"}, {}}
               /\ ret' = Raise(h.exc)
    /\ UNCHANGED <<path_, closed, pc, shapes, heapVars, perfVars>>

update_non_accelerated_points ==
    /\ "update_non_accelerated_points" \in pending
    /\ \E d \in {get_nono_accelerated_points(shapes)} :
          IF d.exc = "none"
          THEN /\ layers' = [layers EXCEPT !["non accelerated join points"] = d.val]
               /\ pending' = pending \ {"update_non_accelerated_points"}
               /\ ret' = ret
          ELSE /\ layers' = layers
               /\ pending' \in {pending \ {"update_non_accelerated_points"}, {}}
               /\ ret' = Raise(d.exc)
    /\ UNCHANGED <<path_, closed, pc, shapes, heapVars, perfVars>>

NextLayers == SetData \/ update_layers \/ update_non_accelerated_points

SpecLayers == InitLayers /\ [][NextLayers]_vars

\* Repeated generation on the arrays of one path.  The caller keeps the path
\* array, the tangent records o of its first generate_order_vectors call
\* (as order_vectors_li keeps them) and the edge mesh of the path, and hands
\* them to the functions in any order, possibly again.
IsRepeatInput(p, cl) ==
    /\ \E k \in 0..MaxRepeatN :
          IF k = 0 THEN p = <<>>
          ELSE \E q \in UnitCoords \X UnitCoords :
                 \E st \in [1..(k - 1) -> {"x", "y"} \X UnitCoords] : p = Walk(q, st)
    /\ (cl /\ Len(p) > 0) => AxisStep(p[Len(p)], p[1])

InitRepeat ==
    /\ NoPerf
    /\ closed \in BOOLEAN
    /\ IsRepeatInput(path_, closed)
    /\ \E m \in {generate_2D_edge_meshes(path_, closed)} :
          heap = [n \in Names |->
                    CASE n = "path_" -> path_
                      [] n = "mesh" -> IF m.exc = "none" THEN m.val ELSE Free
                      [] OTHER -> Free]
    /\ calls = <<>>
    /\ pc = "idle"
    /\ ret = Ok(<<>>)
    /\ shapes = <<>>
    /\ layers = NoLayers
    /\ pending = {}

\* the call f has left the heap r.heap and returned r.ret
Returned(f, r) ==
    /\ Len(calls) < MaxCalls
    /\ pc' = f
    /\ ret' = r.ret
    /\ calls' = Append(calls, <<f, r.ret>>)
    /\ heap' = IF f = "generate_order_vectors" /\ r.heap["o"] = Free /\ r.ret.exc = "none"
               THEN [r.heap EXCEPT !["o"] = r.ret.val]
               ELSE r.heap
    /\ UNCHANGED <<path_, closed, shapes, layers, pending, perfVars>>

RepeatOrderVectors ==
    \E r \in {generate_order_vectors_run(heap, "path_", closed)} :
        Returned("generate_order_vectors", r)

RepeatMiterHelper ==
    /\ heap["o"] # Free
    /\ \E r \in {generate_miter_helper_vectors_run(heap, "o")} :
          Returned("generate_miter_helper_vectors", r)

RepeatOrthogonal ==
    /\ heap["o"] # Free
    /\ \E r \in {generate_orthogonal_vectors_run(heap, "o")} :
          Returned("generate_orthogonal_vectors", r)

RepeatMitterVectors ==
    /\ heap["mesh"] # Free
    /\ \E r \in {generate_mitter_vectors_run(heap, "mesh")} :
          Returned("generate_mitter_vectors", r)

RepeatEdgeTriangleBorders ==
    /\ heap["mesh"] # Free
    /\ \E r \in generate_edge_triangle_borders_run(heap, "mesh") :
          Returned("generate_edge_triangle_borders", r)

NextRepeat ==
    \/ RepeatOrderVectors
    \/ RepeatMiterHelper
    \/ RepeatOrthogonal
    \/ RepeatMitterVectors
    \/ RepeatEdgeTriangleBorders

SpecRepeat == InitRepeat /\ [][NextRepeat]_vars

\* The per-shape computations of get_helper_data_from_shapes, run one call
\* at a time in any order.  Every shape has its arrays (x.data, its edge and
\* face mesh, and the tangent records o that order_vectors_li keeps for it);
\* a call of the helper f for shape k is handed the arrays of shape k only.
\* generate_miter_helper_vectors(o) and generate_orthogonal_vectors(o) need
\* the records o of their shape.  The first call that raises ends the batch.
Functions ==
    {"generate_order_vectors", "generate_miter_helper_vectors",
     "generate_orthogonal_vectors", "generate_mitter_vectors",
     "generate_edge_triangle_borders", "generate_face_triangle_borders"}

ShapeNames == Names \cup {"face"} \cup Functions

ArraysOf(x) ==
    [n \in ShapeNames |->
        CASE n = "path_" -> x.data
          [] n = "mesh" -> EdgeMeshOf(x)
          [] n = "face" -> FaceMesh(x)
          [] OTHER -> Free]

\* for x in shapes; for x in shapes if len(x._face_vertices)
TasksOf(sh) ==
    {t \in (1..Len(sh)) \X Functions :
        t[2] = "generate_face_triangle_borders" => Len(FaceMesh(sh[t[1]])[1]) > 0}

\* the outcomes of the call of f on the arrays h of a shape
RunOf(f, h, cl) ==
    CASE f = "generate_order_vectors" -> {generate_order_vectors_run(h, "path_", cl)}
      [] f = "generate_miter_helper_vectors" -> {generate_miter_helper_vectors_run(h, "o")}
      [] f = "generate_orthogonal_vectors" -> {generate_orthogonal_vectors_run(h, "o")}
      [] f = "generate_mitter_vectors" -> {generate_mitter_vectors_run(h, "mesh")}
      [] f = "generate_edge_triangle_borders" -> generate_edge_triangle_borders_run(h, "mesh")
      [] OTHER -> {Return(h, Ok(generate_face_triangle_borders(h["face"][1], h["face"][2])))}

\* the shapes a batch is made of: the closed unit square (as path), an open
\* path with a corner and an open path of one point
Fixtures ==
    {[data |-> <<<<0, 0>>, <<0, 1>>, <<1, 1>>, <<1, 0>>>>, closed |-> TRUE],
     [data |-> <<<<0, 0>>, <<0, 1>>, <<1, 1>>>>, closed |-> FALSE],
     [data |-> <<<<0, 1>>>>, closed |-> FALSE]}

RECURSIVE TotalPoints(_)
TotalPoints(sh) ==
    IF sh = <<>> THEN 0 ELSE Len(Head(sh).data) + TotalPoints(Tail(sh))

InitParallel ==
    /\ NoPerf
    /\ \E K \in 0..MaxShapes : shapes \in [1..K -> Fixtures]
    /\ TotalPoints(shapes) <= MaxBatchPoints
    /\ path_ = <<>>
    /\ closed = FALSE
    /\ pc = "idle"
    /\ ret = Ok(<<>>)
    /\ layers = NoLayers
    /\ pending = {}
    /\ heap = <<>>
    /\ calls = <<>>

\* mesh_list, path_list, mesh, face_mesh_list, points
StartBatch ==
    /\ pc = "idle"
    /\ IF shapes = <<>>
       THEN /\ pc' = "done"
            /\ ret' = Raise("IndexError")
            /\ UNCHANGED <<heap, pending>>
       ELSE /\ pc' = "tasks"
            /\ heap' = [k \in 1..Len(shapes) |-> ArraysOf(shapes[k])]
            /\ pending' = TasksOf(shapes)
            /\ ret' = ret
    /\ UNCHANGED <<path_, closed, shapes, layers, calls, perfVars>>

\* the call of one helper for one shape; the tangent records returned for a
\* shape are the array o its other helpers are handed
RunTask ==
    /\ pc = "tasks"
    /\ \E t \in pending :
          /\ t[2] \in {"generate_miter_helper_vectors", "generate_orthogonal_vectors"}
                => heap[t[1]]["o"] # Free
          /\ \E r \in RunOf(t[2], heap[t[1]], shapes[t[1]].closed) :
                IF r.ret.exc = "none"
                THEN /\ heap' = [heap EXCEPT ![t[1]] =
                                   IF t[2] = "generate_order_vectors"
                                   THEN [r.heap EXCEPT !["o"] = r.ret.val]
                                   ELSE [r.heap EXCEPT ![t[2]] = r.ret.val]]
                     /\ pending' = pending \ {t}
                     /\ UNCHANGED <<pc, ret>>
                ELSE /\ pc' = "done"
                     /\ ret' = r.ret
                     /\ pending' = {}
                     /\ heap' = heap
    /\ UNCHANGED <<path_, closed, shapes, layers, calls, perfVars>>

\* the np.concatenate of every per-shape list, in shape order, and the return
FinishBatch ==
    /\ pc = "tasks" /\ pending = {}
    /\ pc' = "done"
    /\ LET K == Len(shapes)
           Of(n) == Concat([k \in 1..K |-> IF heap[k][n] = Free THEN <<>> ELSE heap[k][n]])
       IN  ret' = IF \A k \in 1..K : heap[k]["generate_face_triangle_borders"] = Free
                  THEN Raise("ValueError")
                  ELSE Ok([n \in HelperNames |->
                         CASE n = "join points" ->
                                 JoinPoints(ConcatMeshes([k \in 1..K |-> heap[k]["mesh"]]))
                           [] n = "normal vectors" -> Of("o")
                           [] n = "miter helper" -> Of("generate_miter_helper_vectors")
                           [] n = "orthogonal" -> Of("generate_orthogonal_vectors")
                           [] n = "miter vectors" -> Of("generate_mitter_vectors")
                           [] n = "triangle vectors" -> Of("generate_edge_triangle_borders")
                           [] OTHER -> Of("generate_face_triangle_borders")])
    /\ UNCHANGED <<path_, closed, shapes, layers, pending, heapVars, perfVars>>

NextParallel == StartBatch \/ RunTask \/ FinishBatch

SpecParallel == InitParallel /\ [][NextParallel]_vars

\* Calls of a TimeBasedCircularBuffer(MEAN_DRAW_TIME).  time.time() is read
\* once in add_event and once in _remove_old_events; the clock may advance
\* between any two reads and never goes back.
NoFrame == [op |-> "none", current_time |-> 0]

InitBuffer ==
    /\ NoHeap
    /\ clock = 0
    /\ buffer = <<>>
    /\ added = <<>>
    /\ frame = NoFrame
    /\ pc = "idle"
    /\ ret = Ok(<<>>)
    /\ timers = <<>> /\ thresh_ms = 0 /\ log = <<>> /\ bar = <<>>
    /\ path_ = <<>> /\ closed = FALSE
    /\ shapes = <<>> /\ layers = NoLayers /\ pending = {}

\* the statements about to run that read time.time(): add_event (entered
\* from "idle" or as the next statement of update), _remove_old_events,
\* get_recent_events
ClockReads == {"idle", "add_event", "_remove_old_events", "aggregate"}

\* time passes; an advance counts where the clock is read next
Tick ==
    /\ pc \in ClockReads
    /\ \E d \in 1..(MEAN_DRAW_TIME + 1) :
          /\ clock + d <= MaxClock
          /\ clock' = clock + d
    /\ UNCHANGED <<path_, closed, pc, ret, shapes, layers, pending, heapVars,
                   buffer, added, timers, thresh_ms, log, bar, frame>>

\* add_event, lines 34-36: the event is appended with the time read
BufferAppend ==
    /\ pc = "idle"
    /\ Len(added) < MaxEvents
    /\ \E event \in Events :
          /\ buffer' = add_event_append(buffer, event, clock)
          /\ added' = Append(added, <<event, clock>>)
    /\ pc' = "add_event"
    /\ UNCHANGED <<path_, closed, ret, shapes, layers, pending, heapVars,
                   clock, timers, thresh_ms, log, bar, frame>>

\* add_event, line 37: _remove_old_events, and the return
BufferAppendPrune ==
    /\ pc = "add_event"
    /\ buffer' = remove_old_events(buffer, clock, MEAN_DRAW_TIME)
    /\ frame' = [op |-> "add_event", current_time |-> clock]
    /\ pc' = "idle"
    /\ UNCHANGED <<path_, closed, ret, shapes, layers, pending, heapVars,
                   clock, added, timers, thresh_ms, log, bar>>

\* get_recent_events: _remove_old_events, then the events without timestamps
BufferGetRecentEvents ==
    /\ pc = "idle"
    /\ buffer' = remove_old_events(buffer, clock, MEAN_DRAW_TIME)
    /\ frame' = [op |-> "get_recent_events", current_time |-> clock]
    /\ ret' = Ok(EventsOf(buffer'))
    /\ UNCHANGED <<path_, closed, pc, shapes, layers, pending, heapVars,
                   clock, added, timers, thresh_ms, log, bar>>

NextBuffer == Tick \/ BufferAppend \/ BufferAppendPrune \/ BufferGetRecentEvents

SpecBuffer == InitBuffer /\ [][NextBuffer]_vars

\* The QtPerformance widget.  Between updates the application records perf
\* timers and the user may choose another threshold; update runs on the Qt
\* timer, statement by statement, and the clock may advance between any two
\* of its time reads.  An exception leaves update where it is raised.
NoLocals ==
    [op |-> "none", current_time |-> 0, updates |-> 0, it |-> 1, average |-> <<>>,
     average_li |-> <<>>, long_events |-> <<>>, recent |-> <<>>, time_avg |-> 0,
     logged |-> 0]

InitPerf ==
    /\ NoHeap
    /\ clock = 0
    /\ buffer = <<>>
    /\ added = <<>>
    /\ timers = <<>>
    /\ thresh_ms = THRESH_DEFAULT
    /\ log = <<>>
    /\ bar = [maximum |-> 100, value |-> 50]
    /\ frame = NoLocals
    /\ pc = "idle"
    /\ ret = Ok(<<>>)
    /\ path_ = <<>> /\ closed = FALSE
    /\ shapes = <<>> /\ layers = NoLayers /\ pending = {}

\* timed events of the application: the timers are what perf has accumulated
RecordTimers ==
    /\ pc = "idle" /\ ret.exc = "none"
    /\ frame.updates < MaxUpdates
    /\ timers = <<>>
    /\ IsTimers(timers')
    /\ timers' # <<>>
    /\ UNCHANGED <<path_, closed, pc, ret, shapes, layers, pending, heapVars,
                   clock, buffer, added, thresh_ms, log, bar, frame>>

\* _change_thresh
ChangeThresh ==
    /\ pc = "idle" /\ ret.exc = "none"
    /\ frame.updates < MaxUpdates
    /\ thresh_ms' \in ThreshChoices \ {thresh_ms}
    /\ log' = <<>>
    /\ UNCHANGED <<path_, closed, pc, ret, shapes, layers, pending, heapVars,
                   clock, buffer, added, timers, bar, frame>>

\* update, lines 223-226, and the entry of _get_timer_info, lines 199-201
UpdateBegin ==
    /\ pc = "idle" /\ ret.exc = "none"
    /\ frame.updates < MaxUpdates
    /\ frame' = [NoLocals EXCEPT !.updates = frame.updates + 1]
    /\ pc' = "_get_timer_info"
    /\ UNCHANGED <<path_, closed, ret, shapes, layers, pending, heapVars,
                   clock, buffer, added, timers, thresh_ms, log, bar>>

\* one turn of the loop, with self.log.append(name, timer.max) in the loop
\* body in place of long_events.append
UpdateNextTimer_logging ==
    /\ pc = "_get_timer_info"
    /\ frame.it <= Len(timers)
    /\ frame' = get_timer_info_step(frame, timers[frame.it], thresh_ms)
    /\ log' = IF is_long(timers[frame.it].stat.max, thresh_ms)
              THEN Append(log, <<timers[frame.it].name, timers[frame.it].stat.max>>)
              ELSE log
    /\ UNCHANGED <<path_, closed, pc, ret, shapes, layers, pending, heapVars,
                   clock, buffer, added, timers, thresh_ms, bar>>

\* one turn of the loop over perf.timers.timers.items()
UpdateNextTimer ==
    /\ pc = "_get_timer_info"
    /\ frame.it <= Len(timers)
    /\ frame' = get_timer_info_step(frame, timers[frame.it], thresh_ms)
    /\ UNCHANGED <<path_, closed, pc, ret, shapes, layers, pending, heapVars,
                   clock, buffer, added, timers, thresh_ms, log, bar>>

\* lines 216-218 and 231: average = max(average_li); if average is not None
UpdateGotTimerInfo ==
    /\ pc = "_get_timer_info"
    /\ frame.it > Len(timers)
    /\ frame' = [frame EXCEPT !.average = IF frame.average_li # <<>>
                                          THEN <<Max(frame.average_li)>> ELSE @]
    /\ pc' = IF frame'.average # <<>> THEN "add_event" ELSE "log"
    /\ UNCHANGED <<path_, closed, ret, shapes, layers, pending, heapVars,
                   clock, buffer, added, timers, thresh_ms, log, bar>>

\* self._average_queue.add_event(average), lines 34-36
UpdateAddEvent ==
    /\ pc = "add_event"
    /\ buffer' = add_event_append(buffer, frame.average[1], clock)
    /\ added' = Append(added, <<frame.average[1], clock>>)
    /\ pc' = "_remove_old_events"
    /\ UNCHANGED <<path_, closed, ret, shapes, layers, pending, heapVars,
                   clock, timers, thresh_ms, log, bar, frame>>

\* add_event, line 37
UpdateRemoveOldEvents ==
    /\ pc = "_remove_old_events"
    /\ buffer' = remove_old_events(buffer, clock, MEAN_DRAW_TIME)
    /\ frame' = [frame EXCEPT !.op = "add_event", !.current_time = clock]
    /\ pc' = "aggregate"
    /\ UNCHANGED <<path_, closed, ret, shapes, layers, pending, heapVars,
                   clock, added, timers, thresh_ms, log, bar>>

\* time_avg = int(self._average_queue.aggregate(mean)): get_recent_events
\* prunes again; mean of an empty list raises StatisticsError
UpdateAggregate ==
    /\ pc = "aggregate"
    /\ buffer' = remove_old_events(buffer, clock, MEAN_DRAW_TIME)
    /\ \E recent_events \in {EventsOf(buffer')} :
          IF recent_events = <<>>
          THEN /\ frame' = [frame EXCEPT !.op = "get_recent_events",
                                          !.current_time = clock,
                                          !.recent = <<recent_events>>]
               /\ ret' = Raise("StatisticsError")
               /\ pc' = "idle"
          ELSE /\ frame' = [frame EXCEPT !.op = "get_recent_events",
                                          !.current_time = clock,
                                          !.recent = <<recent_events>>,
                                          !.time_avg = IntMean(recent_events)]
               /\ ret' = ret
               /\ pc' = "bar"
    /\ UNCHANGED <<path_, closed, shapes, layers, pending, heapVars,
                   clock, added, timers, thresh_ms, log, bar>>

\* lines 234-241: the setMaximum calls and setValue(time_avg)
UpdateBar ==
    /\ pc = "bar"
    /\ \E calls_ \in {set_maximum_calls(frame.time_avg)} :
          bar' = [maximum |-> calls_[Len(calls_)], value |-> frame.time_avg]
    /\ pc' = "log"
    /\ UNCHANGED <<path_, closed, ret, shapes, layers, pending, heapVars,
                   clock, buffer, added, timers, thresh_ms, log, frame>>

\* lines 244-245: for name, time_ms in long_events: self.log.append(...)
UpdateLog ==
    /\ pc = "log"
    /\ log' = log \o frame.long_events
    /\ frame' = [frame EXCEPT !.logged = Len(frame.long_events)]
    /\ pc' = "clear"
    /\ UNCHANGED <<path_, closed, ret, shapes, layers, pending, heapVars,
                   clock, buffer, added, timers, thresh_ms, bar>>

\* line 249: perf.timers.clear()
UpdateClear ==
    /\ pc = "clear"
    /\ timers' = <<>>
    /\ frame' = [NoLocals EXCEPT !.updates = frame.updates]
    /\ pc' = "idle"
    /\ UNCHANGED <<path_, closed, ret, shapes, layers, pending, heapVars,
                   clock, buffer, added, thresh_ms, log, bar>>

NextPerf ==
    \/ Tick
    \/ RecordTimers
    \/ ChangeThresh
    \/ UpdateBegin
    \/ UpdateNextTimer
    \/ UpdateGotTimerInfo
    \/ UpdateAddEvent
    \/ UpdateRemoveOldEvents
    \/ UpdateAggregate
    \/ UpdateBar
    \/ UpdateLog
    \/ UpdateClear

SpecPerf == InitPerf /\ [][NextPerf]_vars

\* ------------------------------------------------------------------ claims
N_ == Len(path_)

Called == pc = "generate_order_vectors"

\* C1: for every path of N >= 2 points and either value of closed,
\* generate_order_vectors returns exactly N records and record i has path
\* point i as its origin.
C1_RecordPerPoint ==
    (Called /\ N_ >= 2) =>
        /\ ret.exc = "none"
        /\ Len(ret.val) = N_
        /\ \A i \in 1..N_ :
              ret.val[i][1] = <<ToFloat(path_[i][1]), ToFloat(path_[i][2])>>

C1_Witness ==
    /\ Called /\ N_ = 3 /\ closed
    /\ path_[1] # path_[2] /\ path_[2] # path_[3]
    /\ ret.exc = "none" /\ Len(ret.val) = 3

Sign(a) == IF a > 0 THEN 1 ELSE IF a < 0 THEN 0 - 1 ELSE 0

\* the unit direction from integer point a to integer point b # a, on an
\* axis-aligned segment: the sign of the one non-zero coordinate difference
UnitDir(a, b) == <<ToFloat(Sign(b[1] - a[1])), ToFloat(Sign(b[2] - a[2]))>>

\* C2: the tangent of point i < N-1 is the unit direction from point i to
\* point i+1; the tangent of the last point is the unit direction from the
\* last point to the first one when the path is closed and the negative of
\* the second-to-last tangent when it is open.
C2_TangentDirections ==
    (Called /\ N_ >= 2) =>
        /\ ret.exc = "none"
        /\ \A i \in 1..(N_ - 1) :
              path_[i] # path_[i + 1] =>
                  ret.val[i][2] = UnitDir(path_[i], path_[i + 1])
        /\ (closed /\ path_[N_] # path_[1]) =>
              ret.val[N_][2] = UnitDir(path_[N_], path_[1])
        /\ ~closed => ret.val[N_][2] = VNeg(ret.val[N_ - 1][2])

C2_Witness ==
    /\ Called /\ N_ = 3 /\ closed
    /\ path_ = <<<<0, 0>>, <<0, 2>>, <<0, 1>>>>
    /\ ret.val[3][2] = <<0, FNeg(One)>>

\* no two consecutive points coincide and, on a closed path, the last point
\* differs from the first
NoZeroSegment ==
    /\ \A i \in 1..(N_ - 1) : path_[i] # path_[i + 1]
    /\ (closed /\ N_ > 0) => path_[N_] # path_[1]

\* C9: on a path without zero-length segments every tangent, the wraparound
\* and the extrapolated one included, has length exactly 1.
C9_UnitTangents ==
    (Called /\ N_ >= 2 /\ NoZeroSegment) =>
        /\ ret.exc = "none"
        /\ \A i \in 1..N_ :
              /\ ~IsNaNVec(ret.val[i][2])
              /\ ret.val[i][2][1] * ret.val[i][2][1]
                   + ret.val[i][2][2] * ret.val[i][2][2] = One * One

C9_Witness ==
    /\ Called /\ closed /\ N_ = 2 /\ NoZeroSegment
    /\ path_ = <<<<0, 0>>, <<2, 0>>>>
    /\ ret.val[2][2] = <<FNeg(One), 0>>

\* C7: a path with fewer than 2 points when open, or fewer than 3 points when
\* closed, counted after collapsing consecutive coincident points, is
\* rejected with DegeneratePathError and no tangent field is computed for it.
C7_DegenerateRejected ==
    (Called /\ Degenerate(path_, closed)) => ret.exc = "DegeneratePathError"

\* two consecutive points coincide, or the last point of a closed path
\* equals the first: some normalisation denominator is zero
HasZeroSegment ==
    \/ \E i \in 1..(N_ - 1) : path_[i] = path_[i + 1]
    \/ closed /\ N_ > 0 /\ path_[N_] = path_[1]

\* C8: when the normalisation denominator of a segment is zero, tangent
\* estimation fails with ZeroLengthSegmentError instead of returning a
\* tangent for that segment.
C8_ZeroLengthRejected ==
    (Called /\ HasZeroSegment) => ret.exc = "ZeroLengthSegmentError"

CalledMesh == pc = "generate_2D_edge_meshes"

CalledBorders == pc = "generate_edge_triangle_borders"

\* the number of segments of a path of n points
SegmentCount(n) == IF closed THEN n ELSE n - 1

Reversals ==
    LET Q == Collapse(path_, closed)
        K == Len(Q)
    IN  {i \in 1..K :
            /\ closed \/ (1 < i /\ i < K)
            /\ UnitDir(Q[Prev(K, i)], Q[i]) = VNeg(UnitDir(Q[i], Q[Succ(K, i)]))}

C4_TriangleIndices ==
    /\ (CalledMesh /\ ret.exc = "none") =>
          /\ Len(ret.val[2]) = Len(ret.val[1])
          /\ \A i \in 1..Len(ret.val[3]) :
                LET t == ret.val[3][i]
                IN  /\ t[1] # t[2] /\ t[2] # t[3] /\ t[1] # t[3]
                    /\ \A k \in 1..3 : 0 <= t[k] /\ t[k] < Len(ret.val[1])
    /\ CalledBorders =>
          /\ ret.exc = "none"
          /\ Len(ret.val) = 3 * Len(generate_2D_edge_meshes(path_, closed).val[3])

C4_Witness ==
    /\ CalledBorders /\ closed
    /\ path_ = <<<<0, 0>>, <<2, 0>>, <<1, 0>>>>
    /\ ret.exc = "none" /\ Len(ret.val) = 24

\* the vertices, and the triangles, of the shapes before shape k
RECURSIVE VerticesBefore(_, _)
VerticesBefore(ms, k) ==
    IF k = 1 THEN 0 ELSE VerticesBefore(ms, k - 1) + Len(ms[k - 1][1])

RECURSIVE TrianglesBefore(_, _)
TrianglesBefore(ms, k) ==
    IF k = 1 THEN 0 ELSE TrianglesBefore(ms, k - 1) + Len(ms[k - 1][3])

\* C5: in the combined arrays every triangle of shape k refers to vertices
\* of shape k: its indices are the local ones plus the number of vertices
\* of the shapes before k.
C5_GlobalIndexBase ==
    (pc = "mesh1" /\ ret.exc = "none" /\ shapes # <<>>) =>
        \E ms \in {[k \in 1..Len(shapes) |->
                      generate_2D_edge_meshes(shapes[k].data, shapes[k].closed).val]} :
            \A k \in 1..Len(ms) : \A j \in 1..Len(ms[k][3]) : \A c \in 1..3 :
                ret.val[3][TrianglesBefore(ms, k) + j][c]
                    = ms[k][3][j][c] + VerticesBefore(ms, k)

\* C6: a failure of the generation for one shape does not abort the batch:
\* when the tangent or mesh generation fails for one shape of a collection
\* and succeeds for another, the batch call still returns.
C6_ErrorsStayPerShape ==
    /\ (/\ pc = "get_helper_data_from_shapes"
        /\ \E k \in 1..Len(shapes) :
              generate_order_vectors(shapes[k].data, shapes[k].closed).exc # "none"
        /\ \E k \in 1..Len(shapes) :
              generate_order_vectors(shapes[k].data, shapes[k].closed).exc = "none")
          => ret.exc = "none"
    /\ (/\ pc = "get_nono_accelerated_points"
        /\ \E k \in 1..Len(shapes) :
              generate_2D_edge_meshes(shapes[k].data, shapes[k].closed).exc # "none"
        /\ \E k \in 1..Len(shapes) :
              generate_2D_edge_meshes(shapes[k].data, shapes[k].closed).exc = "none")
          => ret.exc = "none"

\* C10: once the callbacks of a set_data event have run, every helper layer
\* and the non-accelerated join points layer hold the data computed from
\* the current shapes.
C10_LayersFollowShapes ==
    (pc = "run" /\ pending = {}) =>
        \E h \in {get_helper_data_from_shapes(shapes)},
           d \in {get_nono_accelerated_points(shapes)} :
            /\ h.exc = "none" /\ d.exc = "none"
            /\ \A n \in HelperNames : layers[n] = h.val[n]
            /\ layers["non accelerated join points"] = d.val

\* C11: generation is deterministic and stateless: a call of a function on
\* the arrays of a path returns what every earlier call of that function on
\* them returned, whatever was called in between.
C11_RepeatedCallsAgree ==
    \A i, j \in 1..Len(calls) : calls[i][1] = calls[j][1] => calls[i][2] = calls[j][2]

\* the miter helper vectors of an open path of three points were generated
\* twice, with the orthogonal vectors generated from the same records in
\* between
C11_Witness ==
    /\ ~closed /\ path_ = <<<<0, 0>>, <<0, 1>>, <<1, 1>>>>
    /\ Len(calls) = 4
    /\ calls[2][1] = "generate_miter_helper_vectors"
    /\ calls[3][1] = "generate_orthogonal_vectors"
    /\ calls[4][1] = "generate_miter_helper_vectors"
    /\ Len(calls[4][2].val) = 6

\* the result of the helper n computed for the shape x alone
Individual(x, n) ==
    LET o == generate_order_vectors(x.data, x.closed).val
        m == EdgeMeshOf(x)
        f == FaceMesh(x)
    IN  CASE n = "join points" -> JoinPoints(m)
          [] n = "normal vectors" -> o
          [] n = "miter helper" -> generate_miter_helper_vectors(o)
          [] n = "orthogonal" -> generate_orthogonal_vectors(o)
          [] n = "miter vectors" -> generate_mitter_vectors(m)
          [] n = "triangle vectors" -> EdgeTriangleBorders(m[1], m[2], m[3])
          [] OTHER -> generate_face_triangle_borders(f[1], f[2])

\* C12: in whatever order the per-shape computations of a batch were run,
\* the batch ends as the shape-by-shape run of get_helper_data_from_shapes
\* ends, and every field of the result it returns is the concatenation, in
\* shape order, of that field computed for each shape alone.
C12_BatchIsConcatenation ==
    pc = "done" =>
        /\ ret = get_helper_data_from_shapes(shapes)
        /\ ret.exc = "none" =>
              \A n \in HelperNames :
                 ret.val[n] = Concat([k \in 1..Len(shapes) |-> Individual(shapes[k], n)])

\* a batch of two shapes, an open path with a corner and the closed square,
\* has returned
C12_Witness ==
    /\ pc = "done" /\ ret.exc = "none" /\ heap # <<>>
    /\ Len(shapes) = 2
    /\ ~shapes[1].closed /\ Len(shapes[1].data) = 3
    /\ shapes[2].closed /\ Len(shapes[2].data) = 4
    /\ Len(ret.val["miter helper"]) = 14
    /\ Len(ret.val["triangle face vectors"]) = 6

\* how many of the entries ever added are no longer in the buffer
Removed == Len(added) - Len(buffer)

\* C18: after add_event or get_recent_events has returned, with t the time
\* read while pruning: every entry in the buffer has age t - timestamp at
\* most duration_seconds, every entry added with such an age (the age
\* duration_seconds itself included) is still there, and every entry of a
\* greater age is gone.
C18_KeptIffRecent ==
    (pc = "idle" /\ frame.op \in {"add_event", "get_recent_events"}) =>
        /\ Removed >= 0
        /\ buffer = SubSeq(added, Removed + 1, Len(added))
        /\ \A i \in 1..Len(added) :
              (i > Removed) <=> (frame.current_time - added[i][2] <= MEAN_DRAW_TIME)

\* a call has returned with an entry of age duration_seconds kept and an
\* older one removed
C18_Witness ==
    /\ pc = "idle" /\ frame.op \in {"add_event", "get_recent_events"}
    /\ Removed = 1
    /\ Len(buffer) >= 1
    /\ frame.current_time - buffer[1][2] = MEAN_DRAW_TIME

\* C19: what get_recent_events returns is a suffix of the events ever added,
\* in the order they were added.
C19_RecentIsSuffix ==
    (pc = "idle" /\ frame.op = "get_recent_events") =>
        \E k \in 0..Len(added) :
            ret.val = [i \in 1..(Len(added) - k) |-> added[k + i][1]]

\* get_recent_events has returned two different events after the first
\* event added was pruned
C19_Witness ==
    /\ pc = "idle" /\ frame.op = "get_recent_events"
    /\ Len(added) = 3
    /\ Len(ret.val) = 2
    /\ ret.val[1] # ret.val[2]

\* the timer timers[i] is among the lines the update under way has logged
LoggedNow(i) ==
    \E j \in (Len(log) - frame.logged + 1)..Len(log) :
        log[j] = <<timers[i].name, timers[i].stat.max>>

\* C17: when an update has written its log lines, a timer is among them if
\* and only if its max is longer than thresh_ms.
C17_LoggedIffLonger ==
    pc = "clear" =>
        \A i \in 1..Len(timers) : LoggedNow(i) <=> timers[i].stat.max > thresh_ms

\* C20: the list of recent events update hands to mean right after add_event
\* is never empty.
C20_MeanOfNonEmpty ==
    frame.recent # <<>> => frame.recent[1] # <<>>

\* the tangent records the miter helper vectors were generated from
TangentRecords == heap["o"]

\* C24: generate_miter_helper_vectors on the N tangent records of a path
\* returns 2N records: record i has the origin of point i and half the
\* tangent of point i as direction; record N + i has its origin at point i
\* plus half the tangent of point i and, as direction, minus half the
\* tangent of the previous point, the previous point of the first being the
\* last.
C24_MiterHelperVectors ==
    pc = "generate_miter_helper_vectors" =>
        LET o == TangentRecords
            N == Len(o)
        IN  /\ ret.exc = "none"
            /\ Len(ret.val) = 2 * N
            /\ \A i \in 1..N :
                  /\ ret.val[i] = <<o[i][1], VHalf(o[i][2])>>
                  /\ ret.val[N + i] =
                        <<VAdd(o[i][1], VHalf(o[i][2])),
                          VHalf(VNeg(o[IF i = 1 THEN N ELSE i - 1][2]))>>

\* the miter helper vectors of the open corner path (0,0), (0,1), (1,1): the
\* second vector of the first point starts at (0, 0.5) and is minus half the
\* tangent (-1, 0) of the last point
C24_Witness ==
    /\ pc = "generate_miter_helper_vectors"
    /\ ~closed /\ path_ = <<<<0, 0>>, <<0, 1>>, <<1, 1>>>>
    /\ Len(ret.val) = 6
    /\ ret.val[4] = <<<<0, 1>>, <<1, 0>>>>
    /\ ret.val[5] = <<<<1, 2>>, <<0, 0 - 1>>>>

\* update has set the progress bar from the mean draw time frame.time_avg
BarWasSet == pc \in {"log", "clear"} /\ frame.average # <<>>

\* C21: after update sets the progress bar for the mean draw time time_avg,
\* the maximum of the bar is 100 when time_avg <= 100, 1000 when
\* 100 < time_avg <= 1000 and 10000 when time_avg > 1000, and so is not
\* below the value the bar is set to.
C21_BarMaximum ==
    BarWasSet =>
        /\ bar.maximum = (IF frame.time_avg <= 100 THEN 100
                          ELSE IF frame.time_avg <= 1000 THEN 1000
                          ELSE 10000)
        /\ bar.maximum >= frame.time_avg

\* _get_timer_info is iterating over perf.timers.timers
Iterating == pc = "_get_timer_info"

\* C22: within an update no widget is modified while the perf timers are
\* iterated: the bar and the log change only in steps taken after
\* _get_timer_info has gone through all the timers (or, between updates,
\* when the user changes the threshold and the log is cleared).
C22_NoWidgetChangeWhileIterating ==
    [][(bar' # bar \/ log' # log) =>
          /\ ~Iterating
          /\ \/ pc \in {"bar", "log"} /\ frame.it > Len(timers)
             \/ pc = "idle" /\ log' = <<>> /\ bar' = bar]_vars

\* an update went through two timers and then set the bar and logged both
C22_Witness ==
    /\ pc = "clear"
    /\ Len(timers) = 2 /\ frame.it = 3
    /\ frame.logged = 2 /\ Len(log) = 2
    /\ bar.value = frame.time_avg /\ bar.value # 50

\* the step in which an update under way ends
UpdateEnds == pc # "idle" /\ pc' = "idle"

\* C23: every update ends by clearing all perf timers, after the bar and the
\* log have been updated from them: the step that ends an update is the
\* clearing step, taken after the log step, and leaves no timer.
C23_UpdateEndsByClearing ==
    [][UpdateEnds => (pc = "clear" /\ timers' = <<>>)]_vars

====
